---- MODULE Spec2Model ----
(***************************************************************************)
(* Flashback AI: the App component's session state, the per-decade         *)
(* generation orchestration, the history store with its legacy migration,  *)
(* the album download and the client-side RateLimitService.                *)
(***************************************************************************)
EXTENDS Integers, Sequences, FiniteSets, TLC

(* ------------------------------ bounds -------------------------------- *)
\* how many of the DECADES of App.tsx:66-70 the model offers
NumDecades == 2
\* external calls (Generate + regenerate) issued in one behaviour
MaxCalls == 3
\* Generate clicks in one behaviour
MaxRuns == 2
\* how many different photos the user has to upload
NumImages == 1
\* clock steps of StaggerMs taken by the application specification
MaxTicks == 2
\* operations the keyed store may reject in one behaviour of the faulty and
\* startup specifications
MaxFaults == 1
\* page reloads in one behaviour
MaxRestarts == 1
\* largest configured VITE_MAX_PHOTOS / VITE_LIMIT_MINUTES the rate
\* specification draws (0 stands for an unset or non-numeric setting)
MaxEnvPhotos == 2
MaxEnvMinutes == 2
\* largest requestedCount / count handed to the RateLimitService
MaxRequested == 3
\* entries the rate log may hold before recordGeneration is no longer taken
MaxLog == 3
\* last instant (ms) of the rate specification's clock
MaxRateTime == 120000
\* longest decade selection of the specification of a single Generate run
RunDecades == 3
\* the decade buttons the selection specification clicks (one more than the
\* selection may hold)
SelectDecades == 7
\* the largest items list given to the multi-image modal
MaxItems == 4

(* -------------------------- program constants ------------------------- *)
DECADES == <<"1950s", "1960s", "1970s", "1980s", "1990s", "2000s",
             "2010s", "2020s", "2030s", "2040s", "2050s", "2060s",
             "2070s", "2080s", "2090s", "2100s">>
DefaultSelectedCount == 6
MaxSelection == 6
StaggerMs == 2000
HistoryLimit == 20
DefaultMaxPhotos == 10
DefaultLimitMinutes == 5
MsPerMinute == 60000
\* useState<number>(0.75), in hundredths
DefaultAspectRatio == 75
\* the modal's zoom, in hundredths: useState(1), prev + 0.25 up to 3, prev - 0.25
\* down to 0.5
InitialScale == 100
ZoomStep == 25
MaxScale == 300
MinScale == 50

NoImage == "null"
NoSession == -1
NoRun == -1
ImageNames == <<"imgA", "imgB", "imgC">>
Images == {ImageNames[i] : i \in 1..NumImages}
\* img.width / img.height of each photo, in hundredths
ImageRatios == <<133, 100, 56>>
AspectOf(img) == ImageRatios[CHOOSE i \in 1..Len(ImageNames) : ImageNames[i] = img]

Min(a, b) == IF a < b THEN a ELSE b
Max(a, b) == IF a > b THEN a ELSE b
SeqToSet(s) == {s[i] : i \in 1..Len(s)}
Decades == {DECADES[i] : i \in 1..NumDecades}

\* GeneratedImage, App.tsx:92-97
Pending == [status |-> "pending", url |-> 0, error |-> ""]
Done(u) == [status |-> "done", url |-> u, error |-> ""]
Failed == [status |-> "error", url |-> 0, error |-> "failed"]
EmptyImages == [d \in {} |-> Pending]

\* generatedImages[decade]?.status
StatusOf(images, d) == IF d \in DOMAIN images THEN images[d].status ELSE "undefined"

VARIABLES
    now,                \* Date.now(), ms since the page was first opened
    imageAspectRatio,   \* useState of App, in hundredths
    decoding,           \* the photo whose img.onload is still to fire
    uploadedImage, generatedImages, isLoading, appState, selectedDecades,
    history, currentSessionId,          \* useState of App
    store,              \* the keyed store behind dbService (IndexedDB)
    legacy,             \* localStorage 'flashback_history'
    initPc, migIdx,     \* position of initHistory
    migrated,           \* the legacy items this page load migrated and removed
    calls,              \* generateDecadeImage calls in flight
    timers,             \* processDecade instances waiting for their stagger delay
    runs,               \* handleGenerateClick runs whose Promise.all is not settled
    nextCall,           \* number of the next external call
    lastGen,            \* instant of the last Generate click
    runCount,           \* Generate clicks so far
    restarts,
    faultsLeft,         \* operations the keyed store may still reject
    album,              \* what handleDownloadAlbum produced, if it was the step just taken
    rateLog,            \* localStorage 'generation_history'
    envMaxPhotos, envLimitMinutes,      \* import.meta.env
    lastCheck,          \* what checkLimit returned, if it was the step just taken
    scale,              \* useState of ImageModal, in hundredths
    currentIndex,       \* useState of the multi-image ImageModal
    modalItems          \* items.length of the multi-image ImageModal; 0 stands for
                        \* the single-image ImageModal, which takes no items

appVars == <<uploadedImage, generatedImages, isLoading, appState, selectedDecades,
             currentSessionId>>
asyncVars == <<calls, timers, runs, nextCall, lastGen, runCount>>
persistVars == <<history, store, faultsLeft>>
initVars == <<legacy, initPc, migIdx, migrated>>
rateVars == <<rateLog, envMaxPhotos, envLimitMinutes>>
envVars == <<restarts>>
imgVars == <<imageAspectRatio, decoding>>
modalVars == <<scale, currentIndex, modalItems>>
vars == <<now, imageAspectRatio, decoding, uploadedImage, generatedImages, isLoading, appState, selectedDecades,
          history, currentSessionId, store, legacy, initPc, migIdx, migrated, calls,
          timers,
          runs, nextCall, lastGen, runCount, restarts, faultsLeft, album, rateLog, envMaxPhotos,
          envLimitMinutes, lastCheck, scale, currentIndex, modalItems>>

(* ------------------- history store (services/dbService) --------------- *)
\* upsert a session record keyed by its identifier
SaveHistoryItem(st, item) == {x \in st : x.id # item.id} \cup {item}
\* delete by identifier
DeleteHistoryItem(st, id) == {x \in st : x.id # id}
\* the newest record of a non-empty set
Newest(st) == CHOOSE x \in st : \A y \in st : y.timestamp < x.timestamp
                                 \/ (y.timestamp = x.timestamp /\ y.id <= x.id)
RECURSIVE GetAllHistory(_)
\* list all records ordered newest-first
GetAllHistory(st) ==
    IF st = {} THEN <<>>
    ELSE <<Newest(st)>> \o GetAllHistory(st \ {Newest(st)})

\* the outcomes of one operation on the keyed store: TRUE when it resolves,
\* FALSE when it rejects
DbOutcomes == IF faultsLeft > 0 THEN BOOLEAN ELSE {TRUE}
FaultsAfter(ok) == IF ok THEN faultsLeft ELSE faultsLeft - 1

\* prev.filter(item => item.id !== id)
FilterOutId(list, id) == SelectSeq(list, LAMBDA item : item.id # id)

\* mutant: the new item is prepended without filtering out its older copy
AutoSaveHistoryNoFilter(prev, newItem) ==
    LET merged == <<newItem>> \o prev
    IN SubSeq(merged, 1, Min(HistoryLimit, Len(merged)))

\* setHistory(prev => ...) of the auto-save effect
AutoSaveHistory(prev, newItem) ==
    LET merged == <<newItem>> \o FilterOutId(prev, newItem.id)
    IN SubSeq(merged, 1, Min(HistoryLimit, Len(merged)))

\* mutant: the item is stamped with the creation time of its session (its id)
NewItemCreationTime(sid, t, img, ratio, sel, imgs, st) ==
    [id |-> sid, timestamp |-> sid, originalImage |-> img, aspectRatio |-> ratio,
     selectedDecades |-> sel, generatedImages |-> imgs, appState |-> st]

\* the HistoryItem the auto-save effect builds from the state it runs in
NewItem(sid, t, img, ratio, sel, imgs, st) ==
    [id |-> sid, timestamp |-> t, originalImage |-> img, aspectRatio |-> ratio,
     selectedDecades |-> sel, generatedImages |-> imgs, appState |-> st]

\* mutant: the effect does not test currentSessionId
AutoSaveGuardNoSessionTest(st, img, sid) == st # "idle" /\ img # NoImage

\* the condition under which the auto-save effect writes
AutoSaveGuard(st, img, sid) == st # "idle" /\ img # NoImage /\ sid # NoSession

\* mutant: the in-memory list is updated only once the store has accepted the item
AutoSaveAwaitsStore ==
    IF AutoSaveGuard(appState', uploadedImage', currentSessionId')
    THEN LET item == NewItem(currentSessionId', now, uploadedImage', imageAspectRatio',
                             selectedDecades', generatedImages', appState')
         IN \E ok \in DbOutcomes :
              /\ history' = IF ok THEN AutoSaveHistory(history, item) ELSE history
              /\ store' = IF ok THEN SaveHistoryItem(store, item) ELSE store
              /\ faultsLeft' = FaultsAfter(ok)
    ELSE UNCHANGED <<history, store, faultsLeft>>

\* The auto-save effect, run after a render in which one of its dependencies
\* changed; it reads the state that render committed (the primed variables).
\* dbService.saveHistoryItem may reject: the rejection is only logged.
AutoSave ==
    IF AutoSaveGuard(appState', uploadedImage', currentSessionId')
    THEN LET item == NewItem(currentSessionId', now, uploadedImage', imageAspectRatio',
                             selectedDecades',
                             generatedImages', appState')
         IN /\ history' = AutoSaveHistory(history, item)
            /\ \E ok \in DbOutcomes :
                 /\ store' = IF ok THEN SaveHistoryItem(store, item) ELSE store
                 /\ faultsLeft' = FaultsAfter(ok)
    ELSE UNCHANGED <<history, store, faultsLeft>>

(* ------------------------------ legacy data --------------------------- *)
LegacyItemA ==
    [id |-> -4000, timestamp |-> -4000, originalImage |-> "imgA", aspectRatio |-> 0,
     selectedDecades |-> <<DECADES[1]>>,
     generatedImages |-> [d \in {DECADES[1]} |-> Done(101)],
     appState |-> "results-shown"]
LegacyItemB ==
    [id |-> -2000, timestamp |-> -2000, originalImage |-> "imgB", aspectRatio |-> 133,
     selectedDecades |-> <<DECADES[1]>>,
     generatedImages |-> [d \in {DECADES[1]} |-> Pending],
     appState |-> "generating"]
AbsentLegacy == [present |-> FALSE, items |-> <<>>]
LegacyChoices ==
    {[present |-> TRUE, items |-> <<>>],
     [present |-> TRUE, items |-> <<LegacyItemA, LegacyItemB>>]}

\* where initHistory stands once its synchronous prefix has run (App.tsx:135-141):
\* an absent record goes straight to the load, an empty list is removed at once
InitPcFor(lg) == IF lg.present /\ Len(lg.items) > 0 THEN "migrate" ELSE "load"
LegacyAfterMount(lg) == IF lg.present /\ Len(lg.items) = 0 THEN AbsentLegacy ELSE lg

\* the modal as App mounts it: the single-image ImageModal at scale 1
SingleImageModal == scale = InitialScale /\ currentIndex = 0 /\ modalItems = 0

DefaultSelected == SubSeq(DECADES, 1, Min(DefaultSelectedCount, NumDecades))
NoAlbum == [outcome |-> "none", decades |-> {}]
NoCheck == [allowed |-> TRUE, remaining |-> 0, resetInMinutes |-> 0, resetAt |-> 0,
            maxPhotos |-> 0, limitMinutes |-> 0, requested |-> -1]

\* the state of a freshly mounted App (App.tsx:117-127)
FreshApp ==
    /\ uploadedImage = NoImage
    /\ generatedImages = EmptyImages
    /\ isLoading = FALSE
    /\ appState = "idle"
    /\ selectedDecades = DefaultSelected
    /\ history = <<>>
    /\ currentSessionId = NoSession

InitCommon ==
    /\ now = 0
    /\ imageAspectRatio = DefaultAspectRatio
    /\ decoding = NoImage
    /\ FreshApp
    /\ store = {}
    /\ migIdx = 0 /\ migrated = <<>>
    /\ calls = {} /\ timers = {} /\ runs = <<>>
    /\ nextCall = 1 /\ lastGen = -1 /\ runCount = 0 /\ restarts = 0
    /\ album = NoAlbum
    /\ rateLog = <<>>
    /\ lastCheck = NoCheck
    /\ SingleImageModal

\* a first visit, once initHistory has loaded the empty store
Init ==
    /\ InitCommon
    /\ legacy = AbsentLegacy
    /\ initPc = "done"
    /\ envMaxPhotos = MaxEnvPhotos
    /\ envLimitMinutes = MaxEnvMinutes
    /\ faultsLeft = 0

(* --------------------------- generation calls ------------------------- *)
\* mutant: the completion handler spreads the map captured at the click (every
\* decade pending) instead of the latest one
MergeEntryFromClick(prev, d, entry) ==
    [x \in (DOMAIN prev) \cup {d} |-> IF x = d THEN entry ELSE Pending]

\* mutant: a completion is dropped when the entry is no longer pending
MergeEntryIfPending(prev, d, entry) ==
    IF d \in DOMAIN prev /\ prev[d].status # "pending"
    THEN prev
    ELSE [x \in (DOMAIN prev) \cup {d} |-> IF x = d THEN entry ELSE prev[x]]

\* mutant: the completion handler writes a fresh map instead of spreading prev
MergeEntryNoSpread(prev, d, entry) == [x \in {d} |-> entry]

\* setGeneratedImages(prev => ({...prev, [decade]: entry}))
MergeEntry(prev, d, entry) ==
    [x \in (DOMAIN prev) \cup {d} |-> IF x = d THEN entry ELSE prev[x]]

\* initialImages of handleGenerateClick (App.tsx:219-222)
InitialImages(sel) == [d \in SeqToSet(sel) |-> Pending]

\* a generateDecadeImage call in flight; run is the Generate run it belongs to
\* (NoRun for a regenerate), session the session it was issued for
Call(id, d, run, sid, img) ==
    [id |-> id, decade |-> d, run |-> run, session |-> sid, image |-> img]

\* mutant: every later position waits one interval only
TimerFixedDelay(id, d, run, index, img, t) ==
    [id |-> id, decade |-> d, run |-> run, index |-> index, image |-> img,
     due |-> t + StaggerMs]

\* a processDecade instance inside its setTimeout (index is the 0-based position)
Timer(id, d, run, index, img, t) ==
    [id |-> id, decade |-> d, run |-> run, index |-> index, image |-> img,
     due |-> t + StaggerMs * index]

\* mutant: Promise.all awaits only the calls already started
RunUnsettledIgnoresTimers(r, cs, ts) == \E c \in cs : c.run = r

\* whether some promise of run r is still unsettled
RunUnsettled(r, cs, ts) == (\E c \in cs : c.run = r) \/ (\E t \in ts : t.run = r)

MarkInterfered(rs) == [r \in DOMAIN rs |-> [rs[r] EXCEPT !.clean = FALSE]]
DropRun(rs, r) == [x \in (DOMAIN rs) \ {r} |-> rs[x]]
AddRun(rs, r, sel) ==
    [x \in (DOMAIN rs) \cup {r} |->
        IF x = r THEN [decades |-> sel, clean |-> TRUE] ELSE rs[x]]

\* mutant: the guard lacks the test for a pending entry
RegenerateRejectedNoPendingTest(img, images, d) == img = NoImage

\* the guard of handleRegenerateDecade (App.tsx:260-265): TRUE when it returns early
RegenerateRejected(img, images, d) ==
    img = NoImage \/ StatusOf(images, d) = "pending"

(* ------------------------------- actions ------------------------------ *)
\* a step that is neither handleDownloadAlbum nor checkLimit produces no output
NoOutput == album' = NoAlbum /\ lastCheck' = NoCheck


Tick ==
    /\ now + StaggerMs <= MaxTicks * StaggerMs
    /\ now' = now + StaggerMs
    /\ UNCHANGED <<appVars, persistVars, initVars, asyncVars, envVars, modalVars, imgVars, rateVars>>
    /\ NoOutput

\* reader.onloadend of handleImageUpload; the file input is rendered while idle
handleImageUpload(img) ==
    /\ appState = "idle"
    /\ uploadedImage' = img
    /\ appState' = "image-uploaded"
    /\ generatedImages' = EmptyImages
    /\ currentSessionId' = NoSession
    /\ decoding' = img
    /\ runs' = MarkInterfered(runs)
    /\ UNCHANGED <<now, imageAspectRatio, isLoading, selectedDecades, initVars, calls,
                   timers, nextCall, lastGen, runCount, envVars, modalVars, rateVars>>
    /\ NoOutput
    /\ AutoSave

\* img.onload of handleImageUpload (App.tsx:199-201): the photo is decoded and
\* its aspect ratio stored; imageAspectRatio is no dependency of the auto-save
\* effect
ImageDecoded ==
    /\ decoding # NoImage
    /\ imageAspectRatio' = AspectOf(decoding)
    /\ decoding' = NoImage
    /\ UNCHANGED <<now, appVars, persistVars, initVars, asyncVars, envVars, modalVars, rateVars>>
    /\ NoOutput

\* mutant: the button is disabled only above the maximum
IsDisabledAboveMax(isSelected, n) == ~isSelected /\ n > MaxSelection

\* const isDisabled = !isSelected && selectedDecades.length >= 6
IsDisabled(isSelected, n) == ~isSelected /\ n >= MaxSelection

\* the decade buttons (App.tsx:447-472)
ToggleDecade(d) ==
    /\ appState = "image-uploaded" /\ uploadedImage # NoImage
    /\ LET isSelected == d \in SeqToSet(selectedDecades)
           isDisabled == IsDisabled(isSelected, Len(selectedDecades))
       IN /\ ~isDisabled
          /\ selectedDecades' =
                IF isSelected THEN SelectSeq(selectedDecades, LAMBDA x : x # d)
                ELSE Append(selectedDecades, d)
    /\ runs' = MarkInterfered(runs)
    /\ UNCHANGED <<now, uploadedImage, generatedImages, isLoading, appState,
                   currentSessionId, initVars, calls, timers, nextCall, lastGen, runCount,
                   envVars, modalVars, imgVars, rateVars>>
    /\ NoOutput
    /\ AutoSave

\* handleGenerateClick up to its await: the state updates, the call of position 0
\* and the timers of the other positions
handleGenerateClick ==
    /\ appState = "image-uploaded"
    /\ ~(uploadedImage = NoImage \/ Len(selectedDecades) = 0)
    /\ now > lastGen
    /\ runCount < MaxRuns
    /\ nextCall + Len(selectedDecades) - 1 <= MaxCalls
    /\ isLoading' = TRUE
    /\ appState' = "generating"
    /\ currentSessionId' = now
    /\ generatedImages' = InitialImages(selectedDecades)
    /\ calls' = calls \cup
          {Call(nextCall, selectedDecades[1], now, now, uploadedImage)}
    /\ timers' = timers \cup
          {Timer(nextCall + i - 1, selectedDecades[i], now, i - 1, uploadedImage, now) :
              i \in 2..Len(selectedDecades)}
    /\ nextCall' = nextCall + Len(selectedDecades)
    /\ lastGen' = now
    /\ runCount' = runCount + 1
    /\ runs' = AddRun(MarkInterfered(runs), now, selectedDecades)
    /\ UNCHANGED <<now, uploadedImage, selectedDecades, initVars, envVars, modalVars, imgVars, rateVars>>
    /\ NoOutput
    /\ AutoSave

\* mutant: a call starts only while fewer than concurrencyLimit = 2 calls of
\* its run are in flight
CanStartGated(t, ts, cs, n) ==
    /\ n >= t.due
    /\ \A u \in ts : u.due >= t.due
    /\ Cardinality({c \in cs : c.run = t.run}) < 2

\* when the setTimeout callback of t runs: its delay has elapsed and no timer due
\* earlier is waiting; concurrencyLimit (App.tsx:225) is read nowhere
CanStart(t, ts, cs, n) ==
    /\ n >= t.due
    /\ \A u \in ts : u.due >= t.due

\* the setTimeout of processDecade elapses and generateDecadeImage is called
StartStaggered(t) ==
    /\ t \in timers
    /\ CanStart(t, timers, calls, now)
    /\ timers' = timers \ {t}
    /\ calls' = calls \cup {Call(t.id, t.decade, t.run, t.run, t.image)}
    /\ UNCHANGED <<now, appVars, persistVars, initVars, runs, nextCall, lastGen, runCount,
                   envVars, modalVars, imgVars, rateVars>>
    /\ NoOutput

\* generateDecadeImage settles: the completion handler of processDecade or of
\* handleRegenerateDecade writes the entry; when it was the last promise of a
\* Generate run, the code after Promise.all runs in the same task
Settle(c, entry) ==
    /\ c \in calls
    /\ calls' = calls \ {c}
    /\ generatedImages' = MergeEntry(generatedImages, c.decade, entry)
    /\ IF c.run # NoRun /\ ~RunUnsettled(c.run, calls', timers)
       THEN /\ isLoading' = FALSE
            /\ appState' = "results-shown"
            /\ runs' = DropRun(runs, c.run)
       ELSE UNCHANGED <<isLoading, appState, runs>>
    /\ UNCHANGED <<now, uploadedImage, selectedDecades, currentSessionId, initVars,
                   timers, nextCall, lastGen, runCount, envVars, modalVars, imgVars, rateVars>>
    /\ NoOutput
    /\ AutoSave

CallSucceeds(c) == Settle(c, Done(c.id))
CallFails(c) == Settle(c, Failed)

\* handleRegenerateDecade(decade), reachable from the card of a selected decade
handleRegenerateDecade(d) ==
    /\ appState \in {"generating", "results-shown"}
    /\ d \in SeqToSet(selectedDecades)
    /\ IF RegenerateRejected(uploadedImage, generatedImages, d)
       THEN UNCHANGED vars
       ELSE /\ nextCall <= MaxCalls
            /\ generatedImages' = MergeEntry(generatedImages, d, Pending)
            /\ calls' = calls \cup
                  {Call(nextCall, d, NoRun, currentSessionId, uploadedImage)}
            /\ nextCall' = nextCall + 1
            /\ runs' = MarkInterfered(runs)
            /\ UNCHANGED <<now, uploadedImage, isLoading, appState, selectedDecades,
                           currentSessionId, initVars, timers, lastGen, runCount, envVars, modalVars, imgVars,
                           rateVars>>
            /\ NoOutput
            /\ AutoSave

\* the state updates of handleReset (App.tsx:293-299)
ResetState ==
    /\ uploadedImage' = NoImage
    /\ imageAspectRatio' = DefaultAspectRatio
    /\ generatedImages' = EmptyImages
    /\ appState' = "idle"
    /\ currentSessionId' = NoSession

\* "Different Photo" / "Start Over"
handleReset ==
    /\ appState \in {"image-uploaded", "results-shown"}
    /\ ResetState
    /\ runs' = MarkInterfered(runs)
    /\ UNCHANGED <<now, isLoading, selectedDecades, initVars, calls, timers, nextCall,
                   lastGen, runCount, envVars, modalVars, decoding, rateVars>>
    /\ NoOutput
    /\ AutoSave

\* mutant: the restored session gets the default aspect ratio
RatioIgnored(value, fallback) == fallback

\* item.aspectRatio || 0.75
RatioOr(value, fallback) == IF value # 0 THEN value ELSE fallback

handleSelectHistoryItem(i) ==
    /\ i \in 1..Len(history)
    /\ LET item == history[i]
       IN /\ uploadedImage' = item.originalImage
          /\ imageAspectRatio' = RatioOr(item.aspectRatio, DefaultAspectRatio)
          /\ selectedDecades' = item.selectedDecades
          /\ generatedImages' = item.generatedImages
          /\ appState' = item.appState
          /\ currentSessionId' = item.id
    /\ UNCHANGED <<now, isLoading, initVars, calls, timers, nextCall, lastGen, runCount,
                   envVars, modalVars, decoding, rateVars>>
    /\ NoOutput
    /\ IF appVars' # appVars
       THEN runs' = MarkInterfered(runs) /\ AutoSave
       ELSE UNCHANGED <<runs, history, store, faultsLeft>>

\* mutant: deleting the loaded session does not reset the App
DeletesCurrentNever(sid, id) == FALSE

\* if (currentSessionId === id) handleReset()
DeletesCurrent(sid, id) == sid = id

handleDeleteHistoryItem(i) ==
    /\ i \in 1..Len(history)
    /\ LET id == history[i].id
       IN /\ history' = FilterOutId(history, id)
          /\ \E ok \in DbOutcomes :
               /\ store' = IF ok THEN DeleteHistoryItem(store, id) ELSE store
               /\ faultsLeft' = FaultsAfter(ok)
          /\ IF DeletesCurrent(currentSessionId, id)
             THEN ResetState /\ runs' = MarkInterfered(runs)
             ELSE UNCHANGED <<uploadedImage, imageAspectRatio, generatedImages, appState,
                              currentSessionId, runs>>
    /\ UNCHANGED <<now, isLoading, selectedDecades, initVars, calls, timers, nextCall,
                   lastGen, runCount, envVars, modalVars, decoding, rateVars>>
    /\ NoOutput

(* ------------------------------ album --------------------------------- *)
\* imageData of handleDownloadAlbum (App.tsx:336-341): the decades whose entry
\* is done and has a url
AlbumImageData(images) ==
    {d \in DOMAIN images : images[d].status = "done" /\ images[d].url # 0}

\* the test that raises the "Please wait" alert (App.tsx:343)
AlbumNotReady(images, sel) == Cardinality(AlbumImageData(images)) < Len(sel)

\* "Download Album", rendered while results are shown; createAlbumPage may throw
handleDownloadAlbum ==
    /\ appState = "results-shown"
    /\ IF AlbumNotReady(generatedImages, selectedDecades)
       THEN album' = [outcome |-> "alert", decades |-> {}]
       ELSE \/ album' = [outcome |-> "file",
                         decades |-> AlbumImageData(generatedImages)]
            \/ album' = [outcome |-> "error", decades |-> {}]
    /\ UNCHANGED <<now, appVars, persistVars, initVars, asyncVars, envVars, modalVars, imgVars, rateVars>>
    /\ lastCheck' = NoCheck

(* ---------------------------- initHistory ----------------------------- *)
\* mutant: the legacy record is removed after the first saved item
MigrationFinishedEarly(idx, items) == idx >= 1

\* whether the item just saved was the last one of the legacy list, so that
\* localStorage.removeItem runs next (App.tsx:140-144)
MigrationFinished(idx, items) == idx = Len(items)

\* mutant: the legacy record is removed although a save was rejected
LegacyRemovedAnyway(lg) == AbsentLegacy

\* the legacy record after a rejected save: the rejection leaves the try block
\* before localStorage.removeItem (App.tsx:144) and the catch only logs (146-148)
LegacyAfterFailedSave(lg) == lg

\* one turn of the migration loop: await dbService.saveHistoryItem(item)
MigrateItem ==
    /\ initPc = "migrate"
    /\ LET item == legacy.items[migIdx + 1]
       IN \/ /\ store' = SaveHistoryItem(store, item)
             /\ UNCHANGED faultsLeft
             /\ IF MigrationFinished(migIdx + 1, legacy.items)
                THEN /\ legacy' = AbsentLegacy
                     /\ migrated' = legacy.items
                     /\ initPc' = "load"
                     /\ migIdx' = 0
                ELSE /\ migIdx' = migIdx + 1
                     /\ UNCHANGED <<legacy, migrated, initPc>>
          \/ \* the save rejects: caught and logged, the legacy record stays
             /\ faultsLeft > 0
             /\ faultsLeft' = faultsLeft - 1
             /\ initPc' = "load"
             /\ migIdx' = 0
             /\ legacy' = LegacyAfterFailedSave(legacy)
             /\ UNCHANGED <<store, migrated>>
    /\ UNCHANGED <<now, appVars, history, asyncVars, envVars, modalVars, imgVars, rateVars>>
    /\ NoOutput

\* const allHistory = await dbService.getAllHistory(); setHistory(allHistory)
LoadHistory ==
    /\ initPc = "load"
    /\ \/ history' = GetAllHistory(store) /\ initPc' = "done" /\ UNCHANGED faultsLeft
       \/ /\ faultsLeft > 0
          /\ faultsLeft' = faultsLeft - 1
          /\ initPc' = "loadFailed"
          /\ UNCHANGED history
    /\ UNCHANGED <<now, appVars, store, legacy, migIdx, migrated, asyncVars, envVars, modalVars, imgVars,
                   rateVars>>
    /\ NoOutput

\* the page is reloaded: the component state and everything in flight are gone,
\* the keyed store and localStorage stay
Restart ==
    /\ restarts < MaxRestarts
    /\ restarts' = restarts + 1
    /\ uploadedImage' = NoImage
    /\ imageAspectRatio' = DefaultAspectRatio
    /\ decoding' = NoImage
    /\ generatedImages' = EmptyImages
    /\ isLoading' = FALSE
    /\ appState' = "idle"
    /\ selectedDecades' = DefaultSelected
    /\ history' = <<>>
    /\ currentSessionId' = NoSession
    /\ calls' = {} /\ timers' = {} /\ runs' = <<>>
    /\ legacy' = LegacyAfterMount(legacy)
    /\ initPc' = InitPcFor(legacy)
    /\ migIdx' = 0 /\ migrated' = <<>>
    /\ scale' = InitialScale /\ UNCHANGED <<currentIndex, modalItems>>
    /\ UNCHANGED <<now, store, faultsLeft, nextCall, lastGen, runCount, rateVars>>
    /\ NoOutput

(* --------------------------- RateLimitService ------------------------- *)
\* Number(import.meta.env.X) || fallback
EnvOr(value, fallback) == IF value # 0 THEN value ELSE fallback
MaxPhotos == EnvOr(envMaxPhotos, DefaultMaxPhotos)
LimitMinutes == EnvOr(envLimitMinutes, DefaultLimitMinutes)
WindowMs == LimitMinutes * 60 * 1000

\* history.filter(ts => now - ts < windowMs)
ActiveHistory(log, t, windowMs) == SelectSeq(log, LAMBDA ts : t - ts < windowMs)

\* mutant: the minutes are rounded down
FloorDiv(a, b) == a \div b

\* Math.ceil(a / b) for a > 0, b > 0
CeilDiv(a, b) == (a + b - 1) \div b

\* mutant: the comparison is strict
AllowedStrict(currentCount, requestedCount, maxPhotos) ==
    (currentCount + requestedCount) < maxPhotos

\* const allowed = (currentCount + requestedCount) <= maxPhotos
Allowed(currentCount, requestedCount, maxPhotos) ==
    (currentCount + requestedCount) <= maxPhotos

\* whether checkLimit computes the reset time (the test at rateLimitService.ts:50)
ComputesReset(allowed, active) == ~allowed /\ Len(active) > 0

\* what checkLimit(requestedCount) returns
CheckLimit(log, t, requestedCount) ==
    LET active == ActiveHistory(log, t, WindowMs)
        allowed == Allowed(Len(active), requestedCount, MaxPhotos)
        reset == ComputesReset(allowed, active)
    IN [allowed |-> allowed,
        remaining |-> Max(0, MaxPhotos - Len(active)),
        resetInMinutes |->
            IF reset THEN CeilDiv(WindowMs - (t - active[1]), 60 * 1000) ELSE 0,
        resetAt |-> IF reset THEN active[1] + WindowMs ELSE 0,
        maxPhotos |-> MaxPhotos,
        limitMinutes |-> LimitMinutes,
        requested |-> requestedCount]

\* mutant: an entry exactly one window old is still stored
RecordedLogInclusive(log, t, count) ==
    SelectSeq(log \o [i \in 1..count |-> t], LAMBDA ts : t - ts <= WindowMs)

\* the log recordGeneration(count) stores
RecordedLog(log, t, count) ==
    ActiveHistory(log \o [i \in 1..count |-> t], t, WindowMs)

recordGeneration(count) ==
    /\ Len(rateLog) + count <= MaxLog
    /\ rateLog' = RecordedLog(rateLog, now, count)
    /\ UNCHANGED <<now, appVars, persistVars, initVars, asyncVars, envVars, modalVars, imgVars,
                   envMaxPhotos, envLimitMinutes>>
    /\ NoOutput

checkLimit(requestedCount) ==
    /\ lastCheck' = CheckLimit(rateLog, now, requestedCount)
    /\ UNCHANGED <<now, appVars, persistVars, initVars, asyncVars, envVars, modalVars, imgVars, rateVars>>
    /\ album' = NoAlbum

\* the instants the rate specification's clock visits
RateInstants ==
    {t \in {k * MsPerMinute + j : k \in 0..(MaxRateTime \div MsPerMinute),
                                 j \in {0, 1, MsPerMinute \div 2, MsPerMinute - 1}} :
        t <= MaxRateTime}

RateTick ==
    /\ \E t \in RateInstants : t > now /\ now' = t
    /\ UNCHANGED <<appVars, persistVars, initVars, asyncVars, envVars, modalVars, imgVars, rateVars>>
    /\ NoOutput

(* ------------------------------ ImageModal ---------------------------- *)
\* mutant: zooming in is not clamped
ZoomInUnclamped(prev) == prev + ZoomStep

\* setScale(prev => Math.min(prev + 0.25, 3))
ZoomIn(prev) == Min(prev + ZoomStep, MaxScale)

\* setScale(prev => Math.max(prev - 0.25, 0.5))
ZoomOut(prev) == Max(prev - ZoomStep, MinScale)

\* setCurrentIndex(prev => (prev > 0 ? prev - 1 : items.length - 1))
PrevIndex(prev, n) == IF prev > 0 THEN prev - 1 ELSE n - 1

\* setCurrentIndex(prev => (prev < items.length - 1 ? prev + 1 : 0))
NextIndex(prev, n) == IF prev < n - 1 THEN prev + 1 ELSE 0

\* nothing of the App changes when a button of the modal is clicked
ModalLeavesApp ==
    /\ UNCHANGED <<now, appVars, persistVars, initVars, asyncVars, envVars, imgVars, rateVars>>
    /\ NoOutput

\* the zoom buttons, the same in both modals
handleZoomIn ==
    /\ scale' = ZoomIn(scale)
    /\ UNCHANGED <<currentIndex, modalItems>>
    /\ ModalLeavesApp

handleZoomOut ==
    /\ scale' = ZoomOut(scale)
    /\ UNCHANGED <<currentIndex, modalItems>>
    /\ ModalLeavesApp

\* the arrows of the multi-image modal, rendered when items.length > 1
handlePrev ==
    /\ modalItems > 1
    /\ currentIndex' = PrevIndex(currentIndex, modalItems)
    /\ scale' = InitialScale
    /\ UNCHANGED modalItems
    /\ ModalLeavesApp

handleNext ==
    /\ modalItems > 1
    /\ currentIndex' = NextIndex(currentIndex, modalItems)
    /\ scale' = InitialScale
    /\ UNCHANGED modalItems
    /\ ModalLeavesApp

(* --------------------------- specifications --------------------------- *)
\* The aspect ratio flows only into the aspectRatio field of the history items and
\* guards nothing: Next and NextFaulty leave img.onload out (the ratio then stays
\* at its default), NextSnapshot below has it.
Next ==
    \/ Tick
    \/ \E img \in Images : handleImageUpload(img)
    \/ \E d \in Decades : ToggleDecade(d)
    \/ handleGenerateClick
    \/ \E t \in timers : StartStaggered(t)
    \/ \E c \in calls : CallSucceeds(c)
    \/ \E c \in calls : CallFails(c)
    \/ \E d \in Decades : handleRegenerateDecade(d)
    \/ handleReset
    \/ \E i \in 1..Len(history) : handleSelectHistoryItem(i)
    \/ \E i \in 1..Len(history) : handleDeleteHistoryItem(i)
    \/ handleDownloadAlbum

Spec == Init /\ [][Next]_vars

\* the application with a keyed store that may reject operations
InitFaulty ==
    /\ InitCommon
    /\ legacy = AbsentLegacy
    /\ initPc = "done"
    /\ envMaxPhotos = MaxEnvPhotos
    /\ envLimitMinutes = MaxEnvMinutes
    /\ faultsLeft = MaxFaults

NextFaulty ==
    \/ Tick
    \/ \E img \in Images : handleImageUpload(img)
    \/ \E d \in Decades : ToggleDecade(d)
    \/ handleGenerateClick
    \/ \E t \in timers : StartStaggered(t)
    \/ \E c \in calls : CallSucceeds(c)
    \/ \E c \in calls : CallFails(c)
    \/ \E d \in Decades : handleRegenerateDecade(d)
    \/ \E i \in 1..Len(history) : handleSelectHistoryItem(i)
    \/ \E i \in 1..Len(history) : handleDeleteHistoryItem(i)
    \/ handleReset

SpecFaulty == InitFaulty /\ [][NextFaulty]_vars

\* Startup: a page load that finds a legacy record, with a keyed store that may
\* reject, followed by the use of the migrated history and by reloads
InitStartup ==
    /\ InitCommon
    /\ \E lg \in LegacyChoices :
         /\ legacy = LegacyAfterMount(lg)
         /\ initPc = InitPcFor(lg)
    /\ envMaxPhotos = MaxEnvPhotos
    /\ envLimitMinutes = MaxEnvMinutes
    /\ faultsLeft = MaxFaults

NextStartup ==
    \/ Tick
    \/ MigrateItem
    \/ LoadHistory
    \/ Restart
    \/ \E i \in 1..Len(history) : handleSelectHistoryItem(i)
    \/ \E i \in 1..Len(history) : handleDeleteHistoryItem(i)
    \/ \E d \in Decades : handleRegenerateDecade(d)
    \/ \E c \in calls : CallSucceeds(c)
    \/ \E c \in calls : CallFails(c)
    \/ handleReset

SpecStartup == InitStartup /\ [][NextStartup]_vars

\* Sessions saved and restored: an upload with its decoded aspect ratio, its
\* Generate run and history selection
NextSnapshot ==
    \/ Tick
    \/ \E img \in Images : handleImageUpload(img)
    \/ ImageDecoded
    \/ handleGenerateClick
    \/ \E t \in timers : StartStaggered(t)
    \/ \E c \in calls : CallSucceeds(c)
    \/ \E c \in calls : CallFails(c)
    \/ \E i \in 1..Len(history) : handleSelectHistoryItem(i)

\* a visit that finds the history empty or holding a migrated session saved
\* without an aspect ratio
InitSnapshot ==
    /\ now = 0
    /\ imageAspectRatio = DefaultAspectRatio /\ decoding = NoImage
    /\ uploadedImage = NoImage /\ generatedImages = EmptyImages
    /\ isLoading = FALSE /\ appState = "idle"
    /\ selectedDecades = DefaultSelected /\ currentSessionId = NoSession
    /\ store \in {{}, {LegacyItemA}}
    /\ history = GetAllHistory(store)
    /\ legacy = AbsentLegacy /\ initPc = "done" /\ migIdx = 0 /\ migrated = <<>>
    /\ calls = {} /\ timers = {} /\ runs = <<>>
    /\ nextCall = 1 /\ lastGen = -1 /\ runCount = 0 /\ restarts = 0
    /\ faultsLeft = 0
    /\ album = NoAlbum /\ lastCheck = NoCheck
    /\ SingleImageModal
    /\ rateLog = <<>> /\ envMaxPhotos = MaxEnvPhotos /\ envLimitMinutes = MaxEnvMinutes

SpecSnapshot == InitSnapshot /\ [][NextSnapshot]_vars

\* One Generate run and nothing else: the photo is uploaded, the user has
\* chosen up to RunDecades decades in some order and clicks Generate
RunSelections ==
    {SubSeq(DECADES, 1, k) : k \in 1..RunDecades}
       \cup {[i \in 1..RunDecades |-> DECADES[RunDecades + 1 - i]]}

InitRun ==
    /\ now = 0
    /\ imageAspectRatio = DefaultAspectRatio /\ decoding = NoImage
    /\ uploadedImage \in Images /\ generatedImages = EmptyImages
    /\ isLoading = FALSE /\ appState = "image-uploaded"
    /\ selectedDecades \in RunSelections /\ currentSessionId = NoSession
    /\ store = {} /\ history = <<>>
    /\ legacy = AbsentLegacy /\ initPc = "done" /\ migIdx = 0 /\ migrated = <<>>
    /\ calls = {} /\ timers = {} /\ runs = <<>>
    /\ nextCall = 1 /\ lastGen = -1 /\ runCount = 0 /\ restarts = 0
    /\ faultsLeft = 0
    /\ album = NoAlbum /\ lastCheck = NoCheck
    /\ SingleImageModal
    /\ rateLog = <<>> /\ envMaxPhotos = MaxEnvPhotos /\ envLimitMinutes = MaxEnvMinutes

NextRun ==
    \/ Tick
    \/ handleGenerateClick
    \/ \E t \in timers : StartStaggered(t)
    \/ \E c \in calls : CallSucceeds(c)
    \/ \E c \in calls : CallFails(c)

SpecRun == InitRun /\ [][NextRun]_vars

\* One Generate run under the scheduling the browser and the claim's assumption
\* provide: while a setTimeout of the run is waiting its delay elapses, an
\* elapsed timer's callback runs, and a call in flight returns or fails
Elapse ==
    /\ \E t \in timers : t.due > now
    /\ now' = now + StaggerMs
    /\ UNCHANGED <<appVars, persistVars, initVars, asyncVars, envVars, modalVars, imgVars, rateVars>>
    /\ NoOutput

NextRunFair ==
    \/ Elapse
    \/ handleGenerateClick
    \/ \E t \in timers : StartStaggered(t)
    \/ \E c \in calls : CallSucceeds(c)
    \/ \E c \in calls : CallFails(c)

RunFairness ==
    /\ WF_vars(Elapse)
    /\ WF_vars(\E t \in timers : StartStaggered(t))
    /\ WF_vars(\E c \in calls : CallSucceeds(c) \/ CallFails(c))

SpecRunFair == InitRun /\ [][NextRunFair]_vars /\ RunFairness

\* Selection: a first visit with the default selection of six decades; the user
\* uploads a photo, clicks decade buttons and Generate
SelectableDecades == {DECADES[i] : i \in 1..SelectDecades}

InitSelect ==
    /\ now = 0
    /\ imageAspectRatio = DefaultAspectRatio /\ decoding = NoImage
    /\ uploadedImage = NoImage /\ generatedImages = EmptyImages
    /\ isLoading = FALSE /\ appState = "idle"
    /\ selectedDecades = SubSeq(DECADES, 1, DefaultSelectedCount)
    /\ currentSessionId = NoSession
    /\ store = {} /\ history = <<>>
    /\ legacy = AbsentLegacy /\ initPc = "done" /\ migIdx = 0 /\ migrated = <<>>
    /\ calls = {} /\ timers = {} /\ runs = <<>>
    /\ nextCall = 1 /\ lastGen = -1 /\ runCount = 0 /\ restarts = 0
    /\ faultsLeft = 0
    /\ album = NoAlbum /\ lastCheck = NoCheck
    /\ SingleImageModal
    /\ rateLog = <<>> /\ envMaxPhotos = MaxEnvPhotos /\ envLimitMinutes = MaxEnvMinutes

NextSelect ==
    \/ \E img \in Images : handleImageUpload(img)
    \/ \E d \in SelectableDecades : ToggleDecade(d)
    \/ handleGenerateClick

SpecSelect == InitSelect /\ [][NextSelect]_vars

\* The modal on its own: the single-image modal, or the multi-image modal
\* mounted with up to MaxItems items at any initialIndex inside the list
InitModal ==
    /\ now = 0
    /\ imageAspectRatio = DefaultAspectRatio /\ decoding = NoImage
    /\ FreshApp
    /\ store = {}
    /\ legacy = AbsentLegacy /\ initPc = "done" /\ migIdx = 0 /\ migrated = <<>>
    /\ calls = {} /\ timers = {} /\ runs = <<>>
    /\ nextCall = 1 /\ lastGen = -1 /\ runCount = 0 /\ restarts = 0
    /\ faultsLeft = 0
    /\ album = NoAlbum
    /\ lastCheck = NoCheck
    /\ rateLog = <<>> /\ envMaxPhotos = MaxEnvPhotos /\ envLimitMinutes = MaxEnvMinutes
    /\ scale = InitialScale
    /\ modalItems \in 0..MaxItems
    /\ currentIndex \in 0..Max(0, modalItems - 1)

NextModal ==
    \/ handleZoomIn
    \/ handleZoomOut
    \/ handlePrev
    \/ handleNext

SpecModal == InitModal /\ [][NextModal]_vars

\* the RateLimitService on its own: every configuration, an empty log
InitRate ==
    /\ InitCommon
    /\ legacy = AbsentLegacy
    /\ initPc = "done"
    /\ faultsLeft = 0
    /\ envMaxPhotos \in 0..MaxEnvPhotos
    /\ envLimitMinutes \in 0..MaxEnvMinutes

NextRate ==
    \/ RateTick
    \/ \E count \in 1..MaxRequested : recordGeneration(count)
    \/ \E requestedCount \in 0..MaxRequested : checkLimit(requestedCount)

SpecRate == InitRate /\ [][NextRate]_vars

\* Eviction: a page load that finds the keyed store holding HistoryLimit sessions
\* of earlier visits, each saved by the auto-save of its own Generate run; the
\* user starts one more session and reloads
EarlierSession(k) ==
    [id |-> 0 - k, timestamp |-> 0 - k, originalImage |-> "imgA",
     aspectRatio |-> DefaultAspectRatio, selectedDecades |-> <<DECADES[1]>>,
     generatedImages |-> [d \in {DECADES[1]} |-> Done(100 + k)],
     appState |-> "results-shown"]
EarlierSessions(n) == {EarlierSession(k) : k \in 1..n}

InitEviction ==
    /\ now = 0
    /\ imageAspectRatio = DefaultAspectRatio /\ decoding = NoImage
    /\ FreshApp
    /\ store = EarlierSessions(HistoryLimit)
    /\ legacy = AbsentLegacy /\ initPc = "load" /\ migIdx = 0 /\ migrated = <<>>
    /\ calls = {} /\ timers = {} /\ runs = <<>>
    /\ nextCall = 1 /\ lastGen = -1 /\ runCount = 0 /\ restarts = 0
    /\ faultsLeft = 0
    /\ album = NoAlbum /\ lastCheck = NoCheck
    /\ SingleImageModal
    /\ rateLog = <<>> /\ envMaxPhotos = MaxEnvPhotos /\ envLimitMinutes = MaxEnvMinutes

NextEviction ==
    \/ Tick
    \/ LoadHistory
    \/ \E img \in Images : handleImageUpload(img)
    \/ handleGenerateClick
    \/ \E t \in timers : StartStaggered(t)
    \/ \E c \in calls : CallSucceeds(c)
    \/ \E c \in calls : CallFails(c)
    \/ Restart

SpecEviction == InitEviction /\ [][NextEviction]_vars

(* =============================== claims ============================== *)
Terminal(images, d) == StatusOf(images, d) \in {"done", "error"}

\* the step in which the last promise of run r settles and the code after
\* Promise.all runs
RunCompletes(r) == r \in DOMAIN runs /\ r \notin DOMAIN runs' /\ restarts' = restarts

\* C1 (as stated): when a handleGenerateClick run completes, every one of its N
\* decades is done or error in generatedImages, whatever the user did meanwhile.
C1_RunEndsAllTerminal ==
    [][\A r \in DOMAIN runs :
          RunCompletes(r) =>
             \A i \in 1..Len(runs[r].decades) :
                Terminal(generatedImages', runs[r].decades[i])]_vars

\* What the orchestration alone guarantees: when a run completes during which no
\* regenerate was accepted and the result map was not replaced (no history
\* selection, reset, deletion of the current session, upload, decade toggle or
\* new Generate), the app shows the results, is no longer loading and every one
\* of the N decades is done or error.
C1_UndisturbedRunEndsAllTerminal ==
    [][\A r \in DOMAIN runs :
          (RunCompletes(r) /\ runs[r].clean) =>
             /\ appState' = "results-shown"
             /\ isLoading' = FALSE
             /\ \A i \in 1..Len(runs[r].decades) :
                   Terminal(generatedImages', runs[r].decades[i])]_vars

\* a two-decade run has completed with nothing but its own two calls issued,
\* one of them failed and one succeeded
C1_Witness ==
    /\ runCount = 1 /\ runs = <<>> /\ calls = {} /\ timers = {}
    /\ nextCall = 3 /\ Len(selectedDecades) = 2
    /\ appState = "results-shown" /\ ~isLoading
    /\ \E d \in DOMAIN generatedImages : generatedImages[d].status = "done"
    /\ \E d \in DOMAIN generatedImages : generatedImages[d].status = "error"

\* C2 (as stated): no two external calls for the same decade and the same
\* session are in flight at once.
C2_OneInFlightPerDecadePerSession ==
    \A c1, c2 \in calls :
       (c1.decade = c2.decade /\ c1.session = c2.session) => c1 = c2

\* C3: handleRegenerateDecade(d) invoked while generatedImages[d] is pending
\* issues no call and changes neither generatedImages, appState,
\* selectedDecades nor the history (list and store).
C3_RegeneratePendingIsNoOp ==
    [][\A d \in Decades :
          (StatusOf(generatedImages, d) = "pending" /\ handleRegenerateDecade(d)) =>
             UNCHANGED <<generatedImages, appState, selectedDecades, history, store,
                         calls, nextCall, uploadedImage, currentSessionId>>]_vars

\* regenerate can be invoked on a pending decade with a call budget left
C3_Witness ==
    /\ appState = "generating" /\ uploadedImage # NoImage /\ nextCall <= MaxCalls
    /\ \E d \in SeqToSet(selectedDecades) : StatusOf(generatedImages, d) = "pending"

SameEntry(a, b, d) ==
    /\ (d \in DOMAIN a) = (d \in DOMAIN b)
    /\ d \in DOMAIN a => a[d] = b[d]

\* C4: the step in which the call for decade d settles (done or error) changes
\* no other decade's entry, starts or cancels no timer and removes no other
\* call: siblings stay in flight or waiting.
C4_SettleTouchesOnlyItsDecade ==
    [][\A c \in calls :
          (c \notin calls' /\ restarts' = restarts) =>
             /\ \A e \in Decades \ {c.decade} :
                   SameEntry(generatedImages, generatedImages', e)
             /\ Terminal(generatedImages', c.decade)
             /\ calls' = calls \ {c}
             /\ timers' = timers]_vars

\* a call of a run has failed while a sibling that already succeeded keeps its
\* result and another promise of the run is still to settle
C4_Witness ==
    \E r \in DOMAIN runs :
       /\ RunUnsettled(r, calls, timers)
       /\ \E d \in DOMAIN generatedImages : generatedImages[d].status = "error"

UniqueIds(list) ==
    \A i, j \in 1..Len(list) : list[i].id = list[j].id => i = j

\* what a history item holds besides its identifier and timestamp
Content(item) ==
    <<item.originalImage, item.selectedDecades, item.generatedImages, item.appState>>
CurrentContent == <<uploadedImage, selectedDecades, generatedImages, appState>>

\* C5: the in-memory history and the keyed store hold at most one entry per
\* session id; the history entry of the loaded session holds what the latest
\* auto-save wrote (the current state), and so does the store's entry as long
\* as the store rejected no operation.
C5_UpsertIdempotent ==
    /\ UniqueIds(history)
    /\ \A x, y \in store : x.id = y.id => x = y
    /\ AutoSaveGuard(appState, uploadedImage, currentSessionId) =>
          /\ \A i \in 1..Len(history) :
                history[i].id = currentSessionId => Content(history[i]) = CurrentContent
          /\ faultsLeft = MaxFaults =>
                \A x \in store : x.id = currentSessionId => Content(x) = CurrentContent

\* a session saved when Generate was clicked and saved again with a result
C5_Witness ==
    /\ currentSessionId # NoSession
    /\ \E i \in 1..Len(history) :
          /\ history[i].id = currentSessionId
          /\ \E d \in DOMAIN history[i].generatedImages :
                history[i].generatedImages[d].status = "done"
    /\ \E x \in store :
          /\ x.id = currentSessionId
          /\ \E d \in DOMAIN x.generatedImages : x.generatedImages[d].status = "done"

\* C6: the legacy record is removed only in a step after which every one of its
\* items is in the keyed store; once removed it never comes back and no
\* migration runs without it; the history loaded by the page load that
\* migrated holds every migrated item.
C6_MigratedOnceThenRemoved ==
    [][/\ (legacy.present /\ ~legacy'.present) =>
             \A k \in 1..Len(legacy.items) : legacy.items[k] \in store'
       /\ ~legacy.present => ~legacy'.present
       /\ initPc' = "migrate" => legacy'.present
       /\ (initPc = "load" /\ initPc' = "done") =>
             \A k \in 1..Len(migrated) :
                \E j \in 1..Len(history') : history'[j] = migrated[k]]_vars

\* a later page load: the legacy record is gone, nothing is migrated and the
\* loaded history holds a migrated item
C6_Witness ==
    /\ restarts >= 1 /\ ~legacy.present /\ initPc = "done" /\ migrated = <<>>
    /\ \E j \in 1..Len(history) : history[j] = LegacyItemA

\* the entries of the log inside the window at the current instant
ActiveCount == Cardinality({i \in 1..Len(rateLog) : now - rateLog[i] < LimitMinutes * 60000})

\* C7: checkLimit(R) returns allowed = (entries inside the window + R <= ceiling)
C7_AllowedIffWithinCeiling ==
    lastCheck.requested >= 0 =>
       lastCheck.allowed = (ActiveCount + lastCheck.requested <= MaxPhotos)

\* after recordGeneration, with an entry that has left the window still in the log,
\* a check is refused
C7_Witness ==
    /\ lastCheck.requested >= 1 /\ ~lastCheck.allowed
    /\ ActiveCount >= 1 /\ ActiveCount < Len(rateLog)

\* C8 (as stated): handleDownloadAlbum produces no file when some selected
\* decade lacks a done result with a url, and otherwise a file built from
\* exactly the selected decades.
C8_AlbumOnlyFromSelectedDone ==
    LET selected == SeqToSet(selectedDecades)
        ready == \A d \in selected :
                    StatusOf(generatedImages, d) = "done" /\ generatedImages[d].url # 0
    IN /\ (album.outcome # "none" /\ ~ready) => album.outcome = "alert"
       /\ album.outcome = "file" => album.decades = selected

\* calls actually handed to generateDecadeImage so far
IssuedCalls == (nextCall - 1) - Cardinality(timers)

\* C9 (as stated): within one window the app issues at most the configured
\* number of generation calls, and every completed generation is in the rate log.
C9_RateLimitApplied ==
    /\ now < WindowMs => IssuedCalls <= MaxPhotos
    /\ (\E d \in DOMAIN generatedImages : generatedImages[d].url \in 1..MaxCalls) =>
          Len(rateLog) > 0

ActiveStamps == {rateLog[i] : i \in {j \in 1..Len(rateLog) : now - rateLog[j] < WindowMs}}
Oldest == CHOOSE t \in ActiveStamps : \A u \in ActiveStamps : t <= u
\* the least number of whole minutes that covers ms
MinutesCovering(ms) == CHOOSE k \in 0..(LimitMinutes + 1) :
                          k * MsPerMinute >= ms /\ (k - 1) * MsPerMinute < ms
ResetIsFromOldest ==
    /\ lastCheck.resetInMinutes = MinutesCovering(WindowMs - (now - Oldest))
    /\ lastCheck.resetInMinutes \in 1..LimitMinutes
    /\ lastCheck.resetAt = Oldest + WindowMs

\* C10 (as stated): whenever allowed is false, resetInMinutes is the minutes,
\* rounded up, until the oldest entry in the window expires, between 1 and M,
\* and resetAt = oldest + window, also with an empty window.
C10_ResetAlwaysReported ==
    (lastCheck.requested >= 0 /\ ~lastCheck.allowed) =>
       /\ lastCheck.resetInMinutes \in 1..LimitMinutes
       /\ ActiveStamps # {} => ResetIsFromOldest

\* C10 (amended): whenever allowed is false and at least one entry is inside
\* the window, resetInMinutes and resetAt are as stated; with no entry inside
\* the window both are 0.
C10_ResetReportedWhenWindowNonEmpty ==
    (lastCheck.requested >= 0 /\ ~lastCheck.allowed) =>
       IF ActiveStamps # {} THEN ResetIsFromOldest
       ELSE lastCheck.resetInMinutes = 0 /\ lastCheck.resetAt = 0

\* a refused check whose remaining time is not a whole number of minutes
C10_Witness ==
    /\ lastCheck.requested >= 0 /\ ~lastCheck.allowed /\ ActiveStamps # {}
    /\ (WindowMs - (now - Oldest)) % MsPerMinute # 0
    /\ lastCheck.resetInMinutes >= 1

\* a step in which an operation of the keyed store was rejected
StoreRejects == faultsLeft' < faultsLeft

\* C11: a rejected saveHistoryItem, getAllHistory or deleteHistoryItem is only
\* logged. The step writes nothing to the store or the legacy record, stops no
\* call and no timer, and the in-memory state is what the handler sets anyway:
\* a failed migration or load leaves the App state and the history list alone, a
\* failed delete still removes the entry from the list, a failed auto-save still
\* puts the current session's snapshot at the head of the list.
C11_PersistenceFailureOnlyLogged ==
    [][StoreRejects =>
         /\ store' = store /\ legacy' = legacy
         /\ timers' = timers
         /\ Cardinality(calls \ calls') <= 1
         /\ IF initPc' # initPc
            THEN UNCHANGED <<appVars, imageAspectRatio, history, calls>>
            ELSE IF Len(history') < Len(history)
            THEN /\ \E i \in 1..Len(history) :
                       history' = FilterOutId(history, history[i].id)
                 /\ calls' = calls
            ELSE /\ AutoSaveGuard(appState', uploadedImage', currentSessionId')
                 /\ Len(history') >= 1
                 /\ history'[1].id = currentSessionId'
                 /\ Content(history'[1]) =
                       <<uploadedImage', selectedDecades', generatedImages', appState'>>]_vars

\* after a rejected save the session went on in memory: a call issued on this
\* page has completed and is in the list, the store still holds the older snapshot
C11_Witness ==
    /\ faultsLeft < MaxFaults /\ currentSessionId # NoSession /\ calls = {}
    /\ appState = "results-shown"
    /\ \E d \in DOMAIN generatedImages : generatedImages[d].url \in 1..MaxCalls
    /\ \E i \in 1..Len(history) :
          history[i].id = currentSessionId /\ Content(history[i]) = CurrentContent
    /\ \E x \in store : x.id = currentSessionId /\ Content(x) # CurrentContent

HistoryIds(list) == {list[i].id : i \in 1..Len(list)}
StoreIds(st) == {x.id : x \in st}

SnapshotRatio(item) == IF item.aspectRatio = 0 THEN DefaultAspectRatio ELSE item.aspectRatio

\* C13: handleSelectHistoryItem restores the image, aspect ratio (0.75 when
\* absent), decade list, results, stage and id of the selected entry, and the
\* auto-save that follows writes the same snapshot back under the same id.
C13_SelectRestoresSnapshot ==
    [][\A i \in 1..Len(history) :
          handleSelectHistoryItem(i) =>
             LET item == history[i]
             IN /\ uploadedImage' = item.originalImage
                /\ imageAspectRatio' = SnapshotRatio(item)
                /\ selectedDecades' = item.selectedDecades
                /\ generatedImages' = item.generatedImages
                /\ appState' = item.appState
                /\ currentSessionId' = item.id
                /\ \E j \in 1..Len(history') :
                      /\ history'[j].id = item.id
                      /\ Content(history'[j]) = Content(item)
                      /\ SnapshotRatio(history'[j]) = SnapshotRatio(item)]_vars

\* the migrated session (saved without an aspect ratio) was selected and saved
\* again with the default ratio; then the session generated on this page was
\* selected and got back its own photo's ratio, results and stage
C13_Witness ==
    /\ Len(history) = 2 /\ calls = {} /\ timers = {}
    /\ history[2].id = LegacyItemA.id
    /\ history[2].timestamp >= 0
    /\ history[2].aspectRatio = DefaultAspectRatio
    /\ history[2].generatedImages = LegacyItemA.generatedImages
    /\ history[1].id >= 0
    /\ currentSessionId = history[1].id
    /\ history[1].aspectRatio # DefaultAspectRatio
    /\ imageAspectRatio = history[1].aspectRatio
    /\ generatedImages = history[1].generatedImages
    /\ appState = "results-shown"

\* C14: a Generate click issues the call of position 0 at once and leaves the
\* other positions waiting; the call of position i is issued no sooner than i
\* intervals after the click and only when no earlier position of the run is
\* still waiting.
C14_IssuedInListOrder ==
    [][/\ handleGenerateClick =>
            /\ \E c \in calls' : c.id = nextCall /\ c.decade = selectedDecades[1]
            /\ \A i \in 2..Len(selectedDecades) :
                  \E t \in timers' :
                     /\ t.id = nextCall + i - 1 /\ t.decade = selectedDecades[i]
                     /\ t.index = i - 1
       /\ \A t \in timers :
            (t \notin timers' /\ restarts' = restarts) =>
               /\ t.index >= 1
               /\ now >= t.run + t.index * StaggerMs
               /\ \A u \in timers : u.run = t.run => u.index >= t.index
               /\ \E c \in calls' \ calls : c.id = t.id /\ c.decade = t.decade]_vars

\* the calls of positions 0 and 1 of a three-decade run have been issued and
\* the third position is still waiting after two intervals
C14_Witness ==
    /\ Len(selectedDecades) = 3 /\ now = 2 * StaggerMs
    /\ \E t \in timers : t.index = 2 /\ t.decade = selectedDecades[3]
    /\ \E c \in calls : c.decade = selectedDecades[2]
    /\ StatusOf(generatedImages, selectedDecades[1]) = "done"

\* C15: nothing gates the start of a call on the number of calls in flight:
\* whenever the delay of a waiting position has elapsed (and no earlier timer
\* is waiting) its call can start, however many calls of the run are in flight.
C15_NoConcurrencyGate ==
    \A t \in timers :
       (now >= t.due /\ \A u \in timers : u.due >= t.due) => ENABLED StartStaggered(t)

\* all three calls of a three-decade run are in flight at once
C15_Witness ==
    /\ Len(selectedDecades) = 3
    /\ Cardinality({c \in calls : c.run = currentSessionId}) = 3

\* C16 (as stated): while the loaded session stays the same, a decade's entry
\* changes only from pending to done or error, or from done or error to
\* pending: never from done to error, error to done or done to another image.
C16_OnlyThroughPending ==
    [][\A d \in Decades :
          (/\ currentSessionId # NoSession /\ currentSessionId' = currentSessionId
           /\ d \in DOMAIN generatedImages /\ d \in DOMAIN generatedImages') =>
             LET a == generatedImages[d]
                 b == generatedImages'[d]
             IN \/ a = b
                \/ a.status = "pending" /\ b.status \in {"done", "error"}
                \/ a.status \in {"done", "error"} /\ b.status = "pending"]_vars

\* C17: the completion handler of an attempt writes its own outcome into the
\* decade's entry whatever the entry held and whatever other attempts for the
\* decade are in flight, and reacts to nothing else: no call is issued or
\* cancelled, no timer touched, image, selection and session stay.
C17_LastWriteWins ==
    [][\A c \in calls :
          (c \notin calls' /\ restarts' = restarts) =>
             /\ c.decade \in DOMAIN generatedImages'
             /\ generatedImages'[c.decade] \in {Done(c.id), Failed}
             /\ calls' = calls \ {c}
             /\ UNCHANGED <<timers, nextCall, uploadedImage, selectedDecades,
                            currentSessionId>>]_vars

\* two attempts for the one selected decade were in flight together; the one
\* issued first completed last and its image is the final result
C17_Witness ==
    /\ runCount = 2 /\ nextCall = 3 /\ calls = {} /\ timers = {}
    /\ currentSessionId = lastGen /\ appState = "results-shown"
    /\ Len(selectedDecades) = 1
    /\ DOMAIN generatedImages = {selectedDecades[1]}
    /\ generatedImages[selectedDecades[1]] = Done(1)

\* a step that replaces the result map as a whole
MapReplaced ==
    \/ handleGenerateClick
    \/ handleReset
    \/ \E img \in Images : handleImageUpload(img)
    \/ \E i \in 1..Len(history) : handleSelectHistoryItem(i)
    \/ \E i \in 1..Len(history) : handleDeleteHistoryItem(i)

\* C18 (as stated): calls are issued only by a Generate click (one per
\* selected decade) or an accepted regenerate (one), and a decade in status
\* error stays in error until it is regenerated or the map is replaced.
C18_NoAutomaticRetry ==
    [][/\ nextCall' # nextCall =>
            \/ handleGenerateClick /\ nextCall' = nextCall + Len(selectedDecades)
            \/ \E d \in Decades : handleRegenerateDecade(d) /\ nextCall' = nextCall + 1
       /\ \A x \in calls' \cup timers' :
            (\E y \in calls \cup timers : y.id = x.id) \/ x.id \in nextCall..(nextCall' - 1)
       /\ \A d \in Decades :
            (StatusOf(generatedImages, d) = "error"
                /\ StatusOf(generatedImages', d) # "error") =>
               handleRegenerateDecade(d) \/ MapReplaced]_vars

\* C19: in a Generate run with no other user action the result map is a
\* function of which calls have settled and how: the decade at position i is
\* pending while its call (number i) is waiting or in flight and holds that
\* call's own outcome afterwards, the map has exactly the selected decades,
\* and once every call has settled the results are shown. The order in which
\* the completion handlers ran leaves no trace.
C19_ResultIndependentOfOrder ==
    runCount = 1 =>
       /\ DOMAIN generatedImages = SeqToSet(selectedDecades)
       /\ \A i \in 1..Len(selectedDecades) :
             LET unsettled == \E x \in calls \cup timers : x.id = i
                 entry == generatedImages[selectedDecades[i]]
             IN IF unsettled THEN entry = Pending ELSE entry \in {Done(i), Failed}
       /\ (calls = {} /\ timers = {}) <=> appState = "results-shown"

\* the calls of a three-decade run complete out of list order: the third has
\* succeeded and the second has failed while the first is still in flight
C19_Witness ==
    /\ Len(selectedDecades) = 3
    /\ \E c \in calls : c.id = 1
    /\ generatedImages[selectedDecades[2]] = Failed
    /\ generatedImages[selectedDecades[3]] = Done(3)

\* C20 (as stated): a history entry's timestamp is the creation time of its
\* session (the instant of the Generate click, which is also its id), and an
\* upsert of an id already in the list leaves the timestamp as it was.
C20_TimestampIsCreationTime ==
    [][/\ \A j \in 1..Len(history') : history'[j].timestamp = history'[j].id
       /\ \A i \in 1..Len(history), j \in 1..Len(history') :
             history[i].id = history'[j].id =>
                history'[j].timestamp = history[i].timestamp]_vars

\* C20 (amended): a history entry's timestamp is the time of the latest
\* auto-save of its session: an entry written in a step carries the current
\* time and stands at the head of the list, so the list is ordered by
\* timestamp, newest first, and a timestamp is never earlier than the
\* creation time held in the id.
C20_TimestampIsLastSaveTime ==
    [][/\ \A j \in 1..Len(history') :
             history'[j] \notin SeqToSet(history) =>
                history'[j].timestamp = now /\ j = 1
       /\ \A j \in 1..Len(history') : history'[j].timestamp >= history'[j].id
       /\ \A j \in 1..(Len(history') - 1) :
             history'[j].timestamp >= history'[j + 1].timestamp]_vars

\* a session whose entry was written again after its creation, when its run
\* had completed
C20_Witness ==
    \E i \in 1..Len(history) :
       /\ history[i].id >= 0
       /\ history[i].timestamp > history[i].id
       /\ history[i].appState = "results-shown"

\* C21: the in-memory history list never holds more than 20 entries
C21_HistoryBounded == Len(history) <= HistoryLimit

\* C22: recordGeneration(count) stores the earlier entries that are still inside
\* the window, in their order, followed by exactly count entries stamped with the
\* current time, and no entry ts with now - ts >= window.
C22_RecordAppendsAndExpires ==
    [][\A count \in 1..MaxRequested :
          recordGeneration(count) =>
             LET kept == SelectSeq(rateLog, LAMBDA ts : ~(now - ts >= WindowMs))
             IN /\ rateLog' = kept \o [i \in 1..count |-> now]
                /\ \A i \in 1..Len(rateLog') : ~(now - rateLog'[i] >= WindowMs)]_vars

\* the stored log holds entries stamped now behind an earlier entry that is
\* still inside the window, at a time when entries of the start have expired
C22_Witness ==
    /\ Len(rateLog) >= 2
    /\ rateLog[Len(rateLog)] = now
    /\ rateLog[1] < now /\ rateLog[1] > 0
    /\ now >= WindowMs

\* C23: if every call in flight eventually returns or fails, a Generate run
\* eventually ends with appState = 'results-shown' and isLoading = false; the run
\* leaves 'generating' only in the step in which the last of its N calls settles,
\* and while a call or a timer of the run is outstanding it stays in 'generating'.
C23_RunEventuallyEnds ==
    /\ (appState = "generating") ~> (appState = "results-shown" /\ ~isLoading)
    /\ [](calls \cup timers # {} => appState = "generating" /\ isLoading)
    /\ [][(appState = "generating" /\ appState' # "generating") =>
            /\ appState' = "results-shown" /\ ~isLoading'
            /\ calls' = {} /\ timers' = {} /\ calls # {}
            /\ nextCall = Len(selectedDecades) + 1
            /\ \A i \in 1..Len(selectedDecades) :
                  Terminal(generatedImages', selectedDecades[i])]_vars

\* a three-decade run has ended, its third call having failed
C23_Witness ==
    /\ appState = "results-shown" /\ ~isLoading
    /\ Len(selectedDecades) = 3 /\ nextCall = 4 /\ now = 2 * StaggerMs
    /\ calls = {} /\ timers = {}
    /\ generatedImages[selectedDecades[3]] = Failed

\* C24 (as stated): a call that settles writes its outcome only while the session
\* and the uploaded image it was issued for are the loaded ones, and the keys of
\* generatedImages are always among the selected decades.
C24_ResultsStayInSession ==
    [][/\ \A c \in calls :
            (c \notin calls' /\ restarts' = restarts) =>
               /\ c.session = currentSessionId
               /\ c.image = uploadedImage
       /\ DOMAIN generatedImages' \subseteq SeqToSet(selectedDecades')]_vars

\* C25 (as stated): in every reachable state appState in {'image-uploaded',
\* 'generating', 'results-shown'} implies an uploaded image, and appState = 'idle'
\* implies an empty generatedImages and no current session.
C25_StageMatchesData ==
    /\ appState \in {"image-uploaded", "generating", "results-shown"} =>
          uploadedImage # NoImage
    /\ appState = "idle" =>
          generatedImages = EmptyImages /\ currentSessionId = NoSession

\* C26 (as stated): whenever the cards are shown, every selected decade that is
\* displayed as pending (status 'pending' or no entry) has a call in flight, or a
\* staggered call waiting to start, for that decade.
C26_PendingHasCallInFlight ==
    appState \in {"generating", "results-shown"} =>
       \A i \in 1..Len(selectedDecades) :
          StatusOf(generatedImages, selectedDecades[i]) \in {"pending", "undefined"} =>
             \E x \in calls \cup timers : x.decade = selectedDecades[i]

\* C27: handleImageUpload sets currentSessionId to null and writes no history
\* entry; a session id that is not already in the history appears only in a
\* handleGenerateClick step; a step that ends with currentSessionId null or
\* appState 'idle' adds or changes no entry of the list or the store; and every
\* entry of the list and the store has stage 'generating' or 'results-shown'.
C27_UploadAloneSavesNothing ==
    [][/\ \A img \in Images :
            handleImageUpload(img) =>
               currentSessionId' = NoSession /\ history' = history /\ store' = store
       /\ (currentSessionId' # currentSessionId /\ currentSessionId' # NoSession) =>
             \/ \E i \in 1..Len(history) : history[i].id = currentSessionId'
             \/ handleGenerateClick
       /\ (currentSessionId' = NoSession \/ appState' = "idle") =>
             /\ \A j \in 1..Len(history') : \E i \in 1..Len(history) : history[i] = history'[j]
             /\ store' \subseteq store
       /\ \A j \in 1..Len(history') : history'[j].appState \in {"generating", "results-shown"}
       /\ \A item \in store' : item.appState \in {"generating", "results-shown"}]_vars

\* with one finished session in the history, a second photo has been uploaded
\* and a decade toggled: no session, and the history still holds that one entry
C27_Witness ==
    /\ appState = "image-uploaded" /\ uploadedImage # NoImage
    /\ currentSessionId = NoSession
    /\ selectedDecades # DefaultSelected
    /\ Len(history) = 1 /\ history[1].appState = "results-shown"
    /\ store = {history[1]}
    /\ calls = {} /\ timers = {}

\* C28: when saving a legacy item is rejected during the migration, the legacy
\* record stays as it was, nothing else changes and initHistory goes on to load
\* the history from the keyed store; a page load that finds the legacy record
\* starts the migration again from its first item.
C28_FailedMigrationKeepsLegacy ==
    [][/\ (initPc = "migrate" /\ StoreRejects) =>
            /\ legacy' = legacy /\ legacy.present /\ Len(legacy.items) > 0
            /\ store' = store /\ history' = history /\ appState' = appState
            /\ initPc' = "load"
       /\ (restarts' # restarts /\ legacy.present /\ Len(legacy.items) > 0) =>
            /\ legacy' = legacy
            /\ initPc' = "migrate" /\ migIdx' = 0 /\ migrated' = <<>>]_vars

\* the migration failed during the first page load (the only way the legacy
\* record survives it); after the reload both legacy items were migrated, the
\* legacy record was removed and the history was loaded from the keyed store
C28_Witness ==
    /\ restarts = 1 /\ faultsLeft = 0
    /\ initPc = "done" /\ ~legacy.present
    /\ migrated = <<LegacyItemA, LegacyItemB>>
    /\ store = {LegacyItemA, LegacyItemB}
    /\ history = <<LegacyItemB, LegacyItemA>>

\* C29: starting from the default selection, selectedDecades never holds a
\* duplicate nor more than 6 decades; a step that changes the selection removes
\* one selected decade or appends one unselected decade, the latter only while
\* fewer than 6 are selected; and a step issues calls only with a non-empty
\* selection and an uploaded image.
C29_SelectionBounded ==
    [][/\ Len(selectedDecades') <= 6
       /\ \A i, j \in 1..Len(selectedDecades') :
             selectedDecades'[i] = selectedDecades'[j] => i = j
       /\ selectedDecades' # selectedDecades =>
             \E d \in SelectableDecades :
                IF \E i \in 1..Len(selectedDecades) : selectedDecades[i] = d
                THEN selectedDecades' = SelectSeq(selectedDecades, LAMBDA x : x # d)
                ELSE /\ Len(selectedDecades) < 6
                     /\ selectedDecades' = Append(selectedDecades, d)
       /\ \A d \in SelectableDecades :
             (Len(selectedDecades) = 6 /\ \A i \in 1..6 : selectedDecades[i] # d) =>
                ~ENABLED ToggleDecade(d)
       /\ nextCall' # nextCall =>
             Len(selectedDecades) > 0 /\ uploadedImage # NoImage]_vars

\* six decades are selected again after the first default decade was removed
\* and the seventh button clicked: the removed one can no longer be added
C29_Witness ==
    /\ appState = "image-uploaded"
    /\ Len(selectedDecades) = 6
    /\ selectedDecades[6] = DECADES[7]
    /\ \A i \in 1..6 : selectedDecades[i] # DECADES[1]

\* C30: in ImageModal the scale is always a multiple of 0.25 within [0.5, 3];
\* zoom-in adds 0.25 and leaves 3 unchanged, zoom-out subtracts 0.25 and leaves
\* 0.5 unchanged; in the multi-image modal currentIndex stays within
\* [0, items.length - 1], next and prev move by one with wrap-around, and both
\* reset the scale to 1.
C30_ZoomAndIndexInRange ==
    [][/\ scale' % 25 = 0 /\ scale' >= 50 /\ scale' <= 300
       /\ handleZoomIn => scale' = (IF scale = 300 THEN 300 ELSE scale + 25)
       /\ handleZoomOut => scale' = (IF scale = 50 THEN 50 ELSE scale - 25)
       /\ modalItems > 0 => currentIndex' \in 0..(modalItems - 1)
       /\ handleNext =>
             /\ currentIndex' = (currentIndex + 1) % modalItems
             /\ scale' = 100
       /\ handlePrev =>
             /\ currentIndex' = (currentIndex + modalItems - 1) % modalItems
             /\ scale' = 100]_vars

\* the multi-image modal shows the last of three items at the largest zoom
C30_Witness ==
    /\ modalItems = 3 /\ currentIndex = 2 /\ scale = MaxScale

====
